---- MODULE Spec2Model ----
(***************************************************************************)
(* The document-store gateway (DataLib) and the observation aggregator of  *)
(* td_dp_lib.py.  The collection is a sequence of documents in natural     *)
(* (insertion) order; a document or an uploaded item is a record whose     *)
(* optional keys (graph_values, trackedVideo, note, viewCount) may be      *)
(* missing from its DOMAIN, as a key may be missing from a Python dict.    *)
(***************************************************************************)
EXTENDS Integers, Sequences, FiniteSets, TLC

VARIABLES collection, nextId, op, arg, ret, raised

vars == <<collection, nextId, op, arg, ret, raised>>

(* ------------------------------ bounds --------------------------------- *)

\* Documents ever inserted through upload_data in one run of Spec.
MaxDocs == 2

\* Documents already in the collection when FoldSpec starts.
MaxFold == 3

(* ------------------------- values of the fields ------------------------ *)

Titles == {"X", "Z"}

Authors == {"Y", "W"}

\* Authors of the items uploaded in Spec (queries range over Authors).
UploadAuthors == {"Y"}

\* graph_values lists: full windows, and one shorter window.
GraphValues == {<<0, 1>>, <<1, 0>>, <<1, 1>>, <<1>>}

\* graph_values of the items uploaded in Spec.
UploadGraphValues == {<<1, 0>>}

ViewCounts == {120}

\* A top-level viewCount an uploaded item may already carry.
StaleViewCounts == {7}

Notes == {"great"}

\* Scrape dates of the stored snapshots.
Timestamps == {"2024-06-04"}

\* Dates a caller may ask for.
Dates == {"2024-06-04", "2024-06-05"}

\* Python's None in a number-valued field (view counts are naturals).
None == -1

\* Python's None in a string-valued field (no note text equals it).
NoneStr == "<None>"

\* Python's None where an object is expected (a document, a Song, an id).
PyNone == [py |-> "None"]

\* The empty dict {}.
EmptyDict == [k \in {} |-> 0]

(* ----------------------------- identifiers ----------------------------- *)

\* The store's native identifier, assigned at insertion.
ObjectId(n) == [type |-> "ObjectId", oid |-> n]

\* str(): the hexadecimal text of an ObjectId; a str is returned as it is.
str(x) == IF x.type = "ObjectId" THEN [type |-> "str", chars |-> x.oid] ELSE x

\* str() of the {title, author} dict that $group uses as _id.
strDict(d) == [type |-> "str", repr |-> d]

IdNumbers == 1..(MaxDocs + 1)

\* The identifiers a caller may pass: native ones and their string forms.
SongIds == {ObjectId(n) : n \in IdNumbers} \cup {str(ObjectId(n)) : n \in IdNumbers}

(* --------------------------- dict primitives --------------------------- *)

Has(d, k) == k \in DOMAIN d

\* dict.get(k, default)
Get(d, k, default) == IF Has(d, k) THEN d[k] ELSE default

\* d[k] = v on a dict: adds the key or overwrites it.
Put(d, k, v) == [x \in DOMAIN d \cup {k} |-> IF x = k THEN v ELSE d[x]]

Min(a, b) == IF a <= b THEN a ELSE b

max(a, b) == IF a >= b THEN a ELSE b

(* ------------------------- the document store ------------------------- *)

\* list(collection.find({field: value})): the matches, in natural order.
Find(coll, field, value) == SelectSeq(coll, LAMBDA d : d[field] = value)

\* list(collection.find({'title': t, 'author': a}))
FindTitleAuthor(coll, t, a) == SelectSeq(coll, LAMBDA d : d.title = t /\ d.author = a)

\* collection.find_one({'_id': song_id}): the first match, or None.
FindOne(coll, song_id) ==
    LET found == Find(coll, "_id", song_id)
    IN  IF found = <<>> THEN PyNone ELSE Head(found)

\* The position of the first document whose _id equals song_id, 0 if none.
FirstMatch(coll, song_id) ==
    IF \E i \in DOMAIN coll : coll[i]._id = song_id
    THEN CHOOSE i \in DOMAIN coll :
            /\ coll[i]._id = song_id
            /\ \A j \in 1..(i - 1) : coll[j]._id # song_id
    ELSE 0

\* insert_many: every document gets a fresh ObjectId and is appended.
InsertMany(coll, next, data) ==
    coll \o [i \in 1..Len(data) |-> Put(data[i], "_id", ObjectId(next + i - 1))]

\* The update that replaces the whole document by the field set.
UpdateOneReplace(coll, song_id, field, value) ==
    LET i == FirstMatch(coll, song_id)
    IN  IF i = 0 THEN coll
        ELSE [coll EXCEPT ![i] = Put([_id |-> @._id], field, value)]

\* update_one({'_id': song_id}, {'$set': {field: value}})
UpdateOneSet(coll, song_id, field, value) ==
    LET i == FirstMatch(coll, song_id)
    IN  IF i = 0 THEN coll ELSE [coll EXCEPT ![i] = Put(@, field, value)]

\* The delete that matches an identifier by its string form.
DeleteOneByText(coll, song_id) ==
    LET m == {i \in DOMAIN coll : str(coll[i]._id) = str(song_id)}
    IN  IF m = {}
        THEN [docs |-> coll, deleted_count |-> 0]
        ELSE LET i == CHOOSE i \in m : \A j \in m : i <= j
             IN  [docs |-> SubSeq(coll, 1, i - 1) \o SubSeq(coll, i + 1, Len(coll)),
                  deleted_count |-> 1]

\* delete_one({'_id': song_id}): the collection left and deleted_count.
DeleteOne(coll, song_id) ==
    LET i == FirstMatch(coll, song_id)
    IN  IF i = 0
        THEN [docs |-> coll, deleted_count |-> 0]
        ELSE [docs |-> SubSeq(coll, 1, i - 1) \o SubSeq(coll, i + 1, Len(coll)),
              deleted_count |-> 1]

\* delete_many({})
DeleteMany(coll) == [docs |-> <<>>, deleted_count |-> Len(coll)]

(* -------------------------------- Song --------------------------------- *)

\* Song.__init__(data, all_occurrences)
Song(data, all_occurrences) ==
    [id |-> Get(data, "_id", PyNone),
     title |-> data.title,
     author |-> data.author,
     graph_values |-> Get(data, "graph_values", <<>>),
     trackedVideo |-> Get(data, "trackedVideo", EmptyDict),
     viewCount |-> Get(Get(data, "trackedVideo", EmptyDict), "viewCount", None),
     timestamp |-> Get(data, "timestamp", NoneStr),
     note |-> Get(data, "note", NoneStr),
     all_occurrences |-> all_occurrences]

(* --------------------------- the aggregation --------------------------- *)

\* The key with the author left out.
KeyOfTitleOnly(data) == <<data.title, "">>

\* key = (data['title'], data['author'])
KeyOf(data) == <<data.title, data.author>>

\* The dict stored under a key that is not yet in aggregated_data.
NewEntry(data) ==
    [_id |-> str(data._id),
     title |-> data.title,
     author |-> data.author,
     graph_values |-> data.graph_values,
     trackedVideo |-> Get(data, "trackedVideo", EmptyDict),
     viewCount |-> Get(Get(data, "trackedVideo", EmptyDict), "viewCount", None),
     timestamp |-> data.timestamp,
     note |-> Get(data, "note", NoneStr),
     all_occurrences |-> <<data>>,
     shares_list_with |-> data._id]

\* The merge that keeps the newer value instead of the larger one.
MergeGraphValuesNewer(old, new) ==
    [i \in 1..Min(Len(old), Len(new)) |-> new[i]]

\* The merge that adds the values instead of taking the larger one.
MergeGraphValuesSum(old, new) ==
    [i \in 1..Min(Len(old), Len(new)) |-> old[i] + new[i]]

\* [max(a, b) for a, b in zip(old, new)]: zip stops at the shorter list.
MergeGraphValues(old, new) ==
    [i \in 1..Min(Len(old), Len(new)) |-> max(old[i], new[i])]

\* The history that keeps only the newest snapshot.
AppendOccurrenceOnlyNewest(occurrences, data) == <<data>>

\* aggregated_data[key]['all_occurrences'].append(data)
AppendOccurrence(occurrences, data) == Append(occurrences, data)

\* The merged values written into the list the entry already holds, which
\* is still the list of the snapshot in shares_list_with.
WriteGraphValuesInPlace(entry, merged) == [entry EXCEPT !.graph_values = merged]

\* aggregated_data[key]['graph_values'] = [...]: the comprehension builds a
\* new list and the key is bound to it, so the entry no longer shares the
\* list of any snapshot.
RebindGraphValues(entry, merged) ==
    [entry EXCEPT !.graph_values = merged, !.shares_list_with = PyNone]

\* The merge that also takes the scalar attributes of the newer snapshot.
MergeEntryNewerScalars(entry, data) ==
    [RebindGraphValues(entry, MergeGraphValues(entry.graph_values, data.graph_values))
        EXCEPT !.all_occurrences = AppendOccurrence(@, data),
               !._id = str(data._id),
               !.timestamp = data.timestamp,
               !.note = Get(data, "note", NoneStr)]

\* The else branch of the loop: merge data into the entry of its key.
MergeEntry(entry, data) ==
    [RebindGraphValues(entry, MergeGraphValues(entry.graph_values, data.graph_values))
        EXCEPT !.all_occurrences = AppendOccurrence(@, data)]

\* The loop over song_data; aggregated_data is kept as the sequence of its
\* values in insertion order.  data['graph_values'] raises KeyError in both
\* branches when the key is missing.
RECURSIVE AggregateFrom(_, _)
AggregateFrom(aggregated_data, song_data) ==
    IF song_data = <<>>
    THEN [raised |-> "none", values |-> aggregated_data]
    ELSE LET data == Head(song_data)
             at == {i \in DOMAIN aggregated_data :
                        KeyOf(aggregated_data[i]) = KeyOf(data)}
         IN  IF ~Has(data, "graph_values")
             THEN [raised |-> "KeyError", values |-> <<>>]
             ELSE IF at = {}
             THEN AggregateFrom(Append(aggregated_data, NewEntry(data)),
                                Tail(song_data))
             ELSE LET i == CHOOSE i \in at : TRUE
                  IN  AggregateFrom(
                          [aggregated_data EXCEPT ![i] = MergeEntry(@, data)],
                          Tail(song_data))

\* data['all_occurrences'] as the caller reads it after the loop: the
\* snapshot dicts themselves, each with the content its graph_values list
\* has by then (the list of the snapshot in shares_list_with is the
\* entry's list).
Occurrences(entry) ==
    [j \in DOMAIN entry.all_occurrences |->
        LET o == entry.all_occurrences[j]
        IN  IF entry.shares_list_with = o._id
            THEN [o EXCEPT !.graph_values = entry.graph_values]
            ELSE o]

\* The aggregation of get_songs_by_name / get_songs_by_author and the list
\* of Song objects they return.
Aggregate(song_data) ==
    LET agg == AggregateFrom(<<>>, song_data)
    IN  [raised |-> agg.raised,
         songs |-> [i \in DOMAIN agg.values |->
                       Song(agg.values[i], Occurrences(agg.values[i]))]]

\* seq[index] with Python's indices: from 0, negative ones from the end.
PyIndex(seq, index) ==
    IF index >= 0 THEN seq[index + 1] ELSE seq[Len(seq) + index + 1]

\* Song.graphs_7(index)
graphs_7(song, index) ==
    IF song.all_occurrences # <<>>
    THEN PyIndex(song.all_occurrences, index).graph_values
    ELSE <<>>

(* --------------------------- inputs of the run ------------------------- *)

\* All sequences over S of length 0..n.
BoundedSeq(S, n) == UNION {[1..k -> S] : k \in 0..n}

\* A nested tracked-video object, without or with a view count.
TrackedVideos == {EmptyDict} \cup {[viewCount |-> v] : v \in ViewCounts}

WithTrackedVideo(S) == S \cup {Put(d, "trackedVideo", tv) : d \in S, tv \in TrackedVideos}

WithStaleViewCount(S) == S \cup {Put(d, "viewCount", v) : d \in S, v \in StaleViewCounts}

\* The items a caller of upload_data passes in Spec.
UploadItems ==
    WithStaleViewCount(WithTrackedVideo(
        [title : Titles, author : UploadAuthors, graph_values : UploadGraphValues,
         timestamp : Timestamps]))

\* The snapshots FoldSpec starts from: any key, any graph_values list, or
\* no graph_values at all.
Snapshots ==
    [title : Titles, author : Authors, graph_values : GraphValues,
     timestamp : Timestamps]
        \cup [title : Titles, author : Authors, timestamp : Timestamps]

\* graph_values of the snapshots ScalarSpec starts from.
ScalarGraphValues == {<<0, 1>>, <<1, 0>>}

\* The snapshots ScalarSpec starts from: any key, scraped on the first date
\* and not annotated, or scraped on the second date and annotated.
ScalarSnapshots ==
    [title : Titles, author : Authors, graph_values : ScalarGraphValues,
     timestamp : Timestamps]
        \cup {Put(d, "note", n) :
                d \in [title : Titles, author : Authors,
                       graph_values : ScalarGraphValues,
                       timestamp : Dates \ Timestamps],
                n \in Notes}

(* ------------------------------ operations ----------------------------- *)

\* The hoist that leaves alone a viewCount the item already carries.
HoistViewCountIfAbsent(item) ==
    IF Has(item, "trackedVideo") /\ Has(item.trackedVideo, "viewCount")
    THEN Put(item, "viewCount", item.trackedVideo.viewCount)
    ELSE IF Has(item, "viewCount") THEN item
    ELSE Put(item, "viewCount", None)

\* The loop of upload_data over one item: hoist trackedVideo.viewCount.
HoistViewCount(item) ==
    IF Has(item, "trackedVideo") /\ Has(item.trackedVideo, "viewCount")
    THEN Put(item, "viewCount", item.trackedVideo.viewCount)
    ELSE Put(item, "viewCount", None)

\* The documents upload_data hands to insert_many.
Hoisted(data) == [i \in DOMAIN data |-> HoistViewCount(data[i])]

\* upload_data(data); insert_many refuses an empty list.
upload_data ==
    \E data \in BoundedSeq(UploadItems, MaxDocs - (nextId - 1)) :
        /\ op' = "upload_data"
        /\ arg' = [data |-> data]
        /\ ret' = PyNone
        /\ IF data = <<>>
           THEN /\ raised' = "TypeError"
                /\ UNCHANGED <<collection, nextId>>
           ELSE /\ raised' = "none"
                /\ collection' = InsertMany(collection, nextId, Hoisted(data))
                /\ nextId' = nextId + Len(data)

\* record['_id'] = str(record['_id']) for every record.
Stringified(data) == [i \in DOMAIN data |-> [data[i] EXCEPT !._id = str(@)]]

\* get_song_data()
get_song_data ==
    /\ op' = "get_song_data"
    /\ arg' = EmptyDict
    /\ ret' = [kind |-> "DataFrame", records |-> Stringified(collection)]
    /\ raised' = "none"
    /\ UNCHANGED <<collection, nextId>>

\* The value get_song_by_id returns, or the error it raises:
\* song_data['title'] is evaluated before the test of song_data.
SongById(coll, song_id) ==
    LET song_data == FindOne(coll, song_id)
    IN  IF song_data = PyNone
        THEN [raised |-> "TypeError", value |-> PyNone]
        ELSE [raised |-> "none",
              value |-> [kind |-> "Song",
                         song |-> Song(song_data,
                                       FindTitleAuthor(coll, song_data.title,
                                                       song_data.author))]]

\* get_song_by_id(song_id)
get_song_by_id ==
    \E song_id \in SongIds :
        /\ op' = "get_song_by_id"
        /\ arg' = [song_id |-> song_id]
        /\ ret' = SongById(collection, song_id).value
        /\ raised' = SongById(collection, song_id).raised
        /\ UNCHANGED <<collection, nextId>>

\* What a fold-based query leaves in ret and raised.
Folded(song_data) ==
    LET res == Aggregate(song_data)
    IN  IF res.raised = "none"
        THEN [raised |-> "none", value |-> [kind |-> "songs", songs |-> res.songs]]
        ELSE [raised |-> res.raised, value |-> PyNone]

\* get_songs_by_name(title)
get_songs_by_name ==
    \E title \in Titles :
        /\ op' = "get_songs_by_name"
        /\ arg' = [title |-> title]
        /\ ret' = Folded(Find(collection, "title", title)).value
        /\ raised' = Folded(Find(collection, "title", title)).raised
        /\ UNCHANGED <<collection, nextId>>

\* get_songs_by_author(author)
get_songs_by_author ==
    \E author \in Authors :
        /\ op' = "get_songs_by_author"
        /\ arg' = [author |-> author]
        /\ ret' = Folded(Find(collection, "author", author)).value
        /\ raised' = Folded(Find(collection, "author", author)).raised
        /\ UNCHANGED <<collection, nextId>>

\* add_note_to_song(song_id, note)
add_note_to_song ==
    \E song_id \in SongIds, note \in Notes :
        /\ op' = "add_note_to_song"
        /\ arg' = [song_id |-> song_id, note |-> note]
        /\ collection' = UpdateOneSet(collection, song_id, "note", note)
        /\ ret' = [kind |-> "message", text |-> "Note added to song"]
        /\ raised' = "none"
        /\ UNCHANGED nextId

\* The message delete_song_by_id builds from result.deleted_count.
DeleteMessage(deleted_count) ==
    IF deleted_count # 0 THEN "deleted successfully" ELSE "not found"

\* delete_song_by_id(song_id)
delete_song_by_id ==
    \E song_id \in SongIds :
        /\ op' = "delete_song_by_id"
        /\ arg' = [song_id |-> song_id]
        /\ collection' = DeleteOne(collection, song_id).docs
        /\ ret' = [kind |-> "message",
                   text |-> DeleteMessage(DeleteOne(collection, song_id).deleted_count)]
        /\ raised' = "none"
        /\ UNCHANGED nextId

\* The rows of the $group pipeline of get_unique_songs, _id stringified;
\* the store does not specify their order.
UniqueSongs(coll) ==
    {[_id |-> strDict([title |-> k[1], author |-> k[2]]),
      unique_ids |-> {coll[i]._id : i \in {j \in DOMAIN coll :
                          coll[j].title = k[1] /\ coll[j].author = k[2]}},
      first |-> Head(FindTitleAuthor(coll, k[1], k[2]))]
        : k \in {<<coll[i].title, coll[i].author>> : i \in DOMAIN coll}}

\* get_unique_songs()
get_unique_songs ==
    /\ op' = "get_unique_songs"
    /\ arg' = EmptyDict
    /\ ret' = [kind |-> "DataFrame", rows |-> UniqueSongs(collection)]
    /\ raised' = "none"
    /\ UNCHANGED <<collection, nextId>>

\* get_daily_top_songs(date)
get_daily_top_songs ==
    \E date \in Dates :
        /\ op' = "get_daily_top_songs"
        /\ arg' = [date |-> date]
        /\ ret' = [kind |-> "DataFrame",
                   records |-> Stringified(Find(collection, "timestamp", date))]
        /\ raised' = "none"
        /\ UNCHANGED <<collection, nextId>>

\* delete_all_songs()
delete_all_songs ==
    /\ op' = "delete_all_songs"
    /\ arg' = EmptyDict
    /\ collection' = DeleteMany(collection).docs
    /\ ret' = [kind |-> "message", text |-> "Deleted songs",
               deleted_count |-> DeleteMany(collection).deleted_count]
    /\ raised' = "none"
    /\ UNCHANGED nextId

(* ---------------------------- specifications --------------------------- *)

\* The gateway on a fresh, empty collection.
Init ==
    /\ collection = <<>>
    /\ nextId = 1
    /\ op = "none"
    /\ arg = EmptyDict
    /\ ret = PyNone
    /\ raised = "none"

Next ==
    \/ upload_data
    \/ get_song_data
    \/ get_song_by_id
    \/ get_songs_by_name
    \/ get_songs_by_author
    \/ add_note_to_song
    \/ delete_song_by_id
    \/ get_unique_songs
    \/ get_daily_top_songs
    \/ delete_all_songs

Spec == Init /\ [][Next]_vars

\* The aggregating queries on a collection that earlier uploads filled.
FoldInit ==
    /\ \E data \in BoundedSeq(Snapshots, MaxFold) :
          collection = InsertMany(<<>>, 1, Hoisted(data))
    /\ nextId = Len(collection) + 1
    /\ op = "none"
    /\ arg = EmptyDict
    /\ ret = PyNone
    /\ raised = "none"

FoldNext ==
    \/ get_songs_by_name
    \/ get_songs_by_author

FoldSpec == FoldInit /\ [][FoldNext]_vars

\* The aggregating queries on a collection whose snapshots of one key
\* differ in their scalar attributes.
ScalarInit ==
    /\ \E data \in BoundedSeq(ScalarSnapshots, MaxFold) :
          collection = InsertMany(<<>>, 1, Hoisted(data))
    /\ nextId = Len(collection) + 1
    /\ op = "none"
    /\ arg = EmptyDict
    /\ ret = PyNone
    /\ raised = "none"

ScalarSpec == ScalarInit /\ [][FoldNext]_vars

(* ------------------- properties of the aggregation --------------------- *)

FoldOps == {"get_songs_by_name", "get_songs_by_author"}

\* The snapshot list the last aggregating query folded.
FoldInput ==
    IF op = "get_songs_by_name" THEN Find(collection, "title", arg.title)
    ELSE IF op = "get_songs_by_author" THEN Find(collection, "author", arg.author)
    ELSE <<>>

\* The last operation was an aggregating query and it returned its songs.
FoldReturned == op \in FoldOps /\ raised = "none"

\* The snapshots of a list that carry the title and the author of e.
Sharing(song_data, e) ==
    SelectSeq(song_data, LAMBDA d : d.title = e.title /\ d.author = e.author)

Orders(n) == {p \in [1..n -> 1..n] : \A i, j \in 1..n : p[i] = p[j] => i = j}

\* The (title, author, graph_values) triples of a list of songs.
GraphsOf(songs) ==
    {<<songs[k].title, songs[k].author, songs[k].graph_values>> : k \in DOMAIN songs}

\* C1: every position of an entity's graph_values holds the maximum of the
\* values at that position over all input snapshots with the entity's
\* (title, author) (each of them has that position, and the entity has every
\* position they all have), and folding the input in any other order gives
\* the same graph_values for every key.
C1_ElementwiseMax ==
    FoldReturned =>
        /\ \A k \in DOMAIN ret.songs :
              LET e == ret.songs[k]
                  c == Sharing(FoldInput, e)
              IN  /\ \A i \in DOMAIN e.graph_values :
                        /\ \A j \in DOMAIN c :
                              /\ i \in DOMAIN c[j].graph_values
                              /\ e.graph_values[i] >= c[j].graph_values[i]
                        /\ \E j \in DOMAIN c :
                              e.graph_values[i] = c[j].graph_values[i]
                  /\ \A i \in UNION {DOMAIN c[j].graph_values : j \in DOMAIN c} :
                        (\A j \in DOMAIN c : i \in DOMAIN c[j].graph_values)
                            => i \in DOMAIN e.graph_values
        /\ \A p \in Orders(Len(FoldInput)) :
              LET other == Aggregate([i \in 1..Len(FoldInput) |-> FoldInput[p[i]]])
              IN  other.raised = "none" /\ GraphsOf(other.songs) = GraphsOf(ret.songs)

\* An entity folded from three snapshots whose maximum is none of them alone
\* at every position.
C1_Witness ==
    /\ FoldReturned
    /\ \E k \in DOMAIN ret.songs :
          /\ Len(ret.songs[k].all_occurrences) = 3
          /\ Len(ret.songs[k].graph_values) = 2
          /\ \E j \in 1..3 :
                ret.songs[k].all_occurrences[j].graph_values # ret.songs[k].graph_values
          /\ ret.songs[k].all_occurrences[1].graph_values
                # ret.songs[k].all_occurrences[3].graph_values

\* C2: the songs returned carry pairwise distinct (title, author) pairs, one
\* for every pair present in the input; so there are at most as many songs
\* as input snapshots, and exactly as many iff the input pairs are pairwise
\* distinct.
C2_OneEntityPerKey ==
    FoldReturned =>
        LET songs == ret.songs
            input == FoldInput
            distinctIn == \A i, j \in DOMAIN input :
                             (input[i].title = input[j].title
                                 /\ input[i].author = input[j].author) => i = j
        IN  /\ \A i, j \in DOMAIN songs :
                  (songs[i].title = songs[j].title
                      /\ songs[i].author = songs[j].author) => i = j
            /\ {<<songs[k].title, songs[k].author>> : k \in DOMAIN songs}
                  = {<<input[i].title, input[i].author>> : i \in DOMAIN input}
            /\ Len(songs) <= Len(input)
            /\ (Len(songs) = Len(input)) <=> distinctIn

\* Three snapshots with the same title, two of them with the same author,
\* folded into two songs.
C2_Witness ==
    /\ FoldReturned
    /\ Len(FoldInput) = 3
    /\ Len(ret.songs) = 2
    /\ ret.songs[1].title = ret.songs[2].title

\* C3: all_occurrences of every song returned is exactly the subsequence of
\* the input snapshots with the song's (title, author), in input order, and
\* is not empty.
C3_AllOccurrences ==
    FoldReturned =>
        \A k \in DOMAIN ret.songs :
            /\ ret.songs[k].all_occurrences # <<>>
            /\ Len(ret.songs[k].all_occurrences)
                  = Cardinality({i \in DOMAIN FoldInput :
                        /\ FoldInput[i].title = ret.songs[k].title
                        /\ FoldInput[i].author = ret.songs[k].author})
            /\ ret.songs[k].all_occurrences = Sharing(FoldInput, ret.songs[k])

\* Two songs, the first with two occurrences that enclose, in the input, the
\* single occurrence of the second.
C3_Witness ==
    /\ FoldReturned
    /\ Len(ret.songs) = 2
    /\ Len(ret.songs[1].all_occurrences) = 2
    /\ Len(ret.songs[2].all_occurrences) = 1
    /\ FoldInput[2] = ret.songs[2].all_occurrences[1]

\* The input holds a snapshot without graph_values, or two snapshots of one
\* (title, author) whose graph_values differ in length.
Malformed(song_data) ==
    \/ \E i \in DOMAIN song_data : ~Has(song_data[i], "graph_values")
    \/ \E i, j \in DOMAIN song_data :
          /\ song_data[i].title = song_data[j].title
          /\ song_data[i].author = song_data[j].author
          /\ Len(song_data[i].graph_values) # Len(song_data[j].graph_values)

\* C4: an aggregating query over an input with a missing graph_values or
\* with graph_values of different lengths under one key ends with an error
\* and returns no songs.
C4_MalformedAborts ==
    (op \in FoldOps /\ Malformed(FoldInput)) => raised # "none"

\* C10: folding the input concatenated with itself returns as many songs, in
\* the same order, with the same (title, author) and graph_values, and with
\* all_occurrences twice as long.
C10_TwiceSameMax ==
    FoldReturned =>
        LET twice == Aggregate(FoldInput \o FoldInput)
        IN  /\ twice.raised = "none"
            /\ Len(twice.songs) = Len(ret.songs)
            /\ \A k \in DOMAIN ret.songs :
                  /\ twice.songs[k].title = ret.songs[k].title
                  /\ twice.songs[k].author = ret.songs[k].author
                  /\ twice.songs[k].graph_values = ret.songs[k].graph_values
                  /\ Len(twice.songs[k].all_occurrences)
                        = 2 * Len(ret.songs[k].all_occurrences)

\* Two songs returned, one of them merged from snapshots with different
\* graph_values.
C10_Witness ==
    /\ FoldReturned
    /\ Len(ret.songs) = 2
    /\ \E k \in DOMAIN ret.songs :
          /\ Len(ret.songs[k].all_occurrences) >= 2
          /\ ret.songs[k].all_occurrences[1].graph_values # ret.songs[k].graph_values

\* The position in the input of the first snapshot with e's (title, author).
FirstSeen(song_data, e) ==
    CHOOSE i \in DOMAIN song_data :
        /\ song_data[i].title = e.title /\ song_data[i].author = e.author
        /\ \A j \in 1..(i - 1) :
              ~(song_data[j].title = e.title /\ song_data[j].author = e.author)

\* C11: the songs are returned in the order in which their (title, author)
\* first appears in the input, and the identifier (in string form), the
\* timestamp, the note, the trackedVideo and the viewCount of each song are
\* those of the first input snapshot with its key, however many later
\* snapshots of the key were merged into it.
C11_FirstSeenOrderAndScalars ==
    FoldReturned =>
        /\ \A k, l \in DOMAIN ret.songs :
              k < l => FirstSeen(FoldInput, ret.songs[k]) < FirstSeen(FoldInput, ret.songs[l])
        /\ \A k \in DOMAIN ret.songs :
              LET e == ret.songs[k]
                  first == FoldInput[FirstSeen(FoldInput, e)]
              IN  /\ e.id = str(first._id)
                  /\ e.timestamp = first.timestamp
                  /\ e.note = (IF "note" \in DOMAIN first THEN first.note ELSE NoneStr)
                  /\ e.trackedVideo
                        = (IF "trackedVideo" \in DOMAIN first
                           THEN first.trackedVideo ELSE EmptyDict)
                  /\ e.viewCount
                        = (IF "trackedVideo" \in DOMAIN first
                              /\ "viewCount" \in DOMAIN first.trackedVideo
                           THEN first.trackedVideo.viewCount ELSE None)

\* Two songs; the first was merged from the first and the last input
\* snapshot, which differ in timestamp, note and graph_values, and its
\* graph_values is no longer that of its first snapshot.
C11_Witness ==
    /\ FoldReturned
    /\ Len(FoldInput) = 3
    /\ Len(ret.songs) = 2
    /\ Len(ret.songs[1].all_occurrences) = 2
    /\ FoldInput[1].timestamp # FoldInput[3].timestamp
    /\ ("note" \in DOMAIN FoldInput[1]) # ("note" \in DOMAIN FoldInput[3])
    /\ ret.songs[1].graph_values # FoldInput[1].graph_values

\* The stored document a returned occurrence stands for.
StoredAs(o) == collection[CHOOSE i \in DOMAIN collection : collection[i]._id = o._id]

\* C12: after the aggregation every snapshot in a song's all_occurrences,
\* the first-seen one included, is equal to the document that was read, so
\* graphs_7(index) and all_occurrences[-1]['graph_values'] give the
\* snapshot's own values.
C12_SnapshotsUnmodified ==
    FoldReturned =>
        \A k \in DOMAIN ret.songs :
            LET e == ret.songs[k]
                n == Len(e.all_occurrences)
            IN  /\ \A j \in 1..n :
                      /\ e.all_occurrences[j] = StoredAs(e.all_occurrences[j])
                      /\ graphs_7(e, j - 1)
                            = StoredAs(e.all_occurrences[j]).graph_values
                /\ PyIndex(e.all_occurrences, -1).graph_values
                      = StoredAs(e.all_occurrences[n]).graph_values

\* A song merged from three snapshots whose merged graph_values differs from
\* what graphs_7() gives for its first-seen snapshot and from what its
\* latest occurrence holds.
C12_Witness ==
    /\ FoldReturned
    /\ \E k \in DOMAIN ret.songs :
          /\ Len(ret.songs[k].all_occurrences) = 3
          /\ graphs_7(ret.songs[k], 0) # ret.songs[k].graph_values
          /\ PyIndex(ret.songs[k].all_occurrences, -1).graph_values
                # ret.songs[k].graph_values

(* ---------------------- properties of the gateway ---------------------- *)

\* The positions of the documents whose identifier equals song_id.
Matching(coll, song_id) == {i \in DOMAIN coll : coll[i]._id = song_id}

\* C5: get_song_by_id with an identifier that no stored document carries
\* returns None and raises nothing.
C5_NotFoundIsNone ==
    (op = "get_song_by_id" /\ Matching(collection, arg.song_id) = {})
        => (raised = "none" /\ ret = PyNone)

\* The identifiers of a Song and of the snapshots in its all_occurrences.
IdsOfSong(song) ==
    {song.id} \cup {song.all_occurrences[i]._id : i \in DOMAIN song.all_occurrences}

\* Every document identifier that the value returned last lets the caller see.
IdsVisible ==
    IF ~Has(ret, "kind") THEN {}
    ELSE IF ret.kind = "Song" THEN IdsOfSong(ret.song)
    ELSE IF ret.kind = "songs"
        THEN UNION {IdsOfSong(ret.songs[k]) : k \in DOMAIN ret.songs}
    ELSE IF ret.kind = "DataFrame" /\ Has(ret, "records")
        THEN {ret.records[i]._id : i \in DOMAIN ret.records}
    ELSE IF ret.kind = "DataFrame" /\ Has(ret, "rows")
        THEN {r._id : r \in ret.rows} \cup UNION {r.unique_ids : r \in ret.rows}
    ELSE {}

\* C6: every document identifier visible in a returned value is a string,
\* never the store's native identifier.
C6_IdsAreStrings == \A id \in IdsVisible : id.type = "str"

C8_OnlyNoteChanges ==
    [][op' = "add_note_to_song" =>
        /\ raised' = "none"
        /\ Len(collection') = Len(collection)
        /\ Cardinality(Matching(collection, arg'.song_id)) <= 1
        /\ \A i \in DOMAIN collection :
              IF collection[i]._id = arg'.song_id
              THEN /\ DOMAIN collection'[i] = DOMAIN collection[i] \cup {"note"}
                   /\ collection'[i].note = arg'.note
                   /\ \A k \in DOMAIN collection[i] \ {"note"} :
                         collection'[i][k] = collection[i][k]
              ELSE collection'[i] = collection[i]]_vars

\* A note was set on one of two stored documents; the other has none.
C8_Witness ==
    /\ op = "add_note_to_song"
    /\ Len(collection) = 2
    /\ \E i, j \in DOMAIN collection :
          /\ collection[i]._id = arg.song_id
          /\ Has(collection[i], "note")
          /\ ~Has(collection[j], "note")

\* The top-level viewCount upload_data must store for an item.
ExpectedViewCount(item) ==
    IF Has(item, "trackedVideo") /\ Has(item.trackedVideo, "viewCount")
    THEN item.trackedVideo.viewCount
    ELSE None

\* C9: upload_data keeps the stored documents as they were and appends one
\* document per item of the batch, in order: the item with a fresh
\* identifier and with viewCount set to its trackedVideo.viewCount, or to
\* None when it has no trackedVideo with a viewCount, whatever viewCount the
\* item carried; items equal to stored ones are stored again.
C9_UploadHoistsViewCount ==
    [][op' = "upload_data" =>
        LET data == arg'.data
            n == Len(collection)
        IN  /\ Len(collection') = n + Len(data)
            /\ SubSeq(collection', 1, n) = collection
            /\ \A i \in DOMAIN data :
                  LET doc == collection'[n + i]
                  IN  /\ doc.viewCount = ExpectedViewCount(data[i])
                      /\ DOMAIN doc = DOMAIN data[i] \cup {"_id", "viewCount"}
                      /\ \A k \in DOMAIN data[i] \ {"viewCount"} : doc[k] = data[i][k]
                      /\ doc._id.type = "ObjectId"
                      /\ \A j \in 1..(n + i - 1) : collection'[j]._id # doc._id]_vars

\* An item that came with a viewCount of its own and no trackedVideo was
\* stored with viewCount None, next to a stored document with the same
\* title, author and timestamp.
C9_Witness ==
    /\ op = "upload_data"
    /\ Len(collection) = 2
    /\ collection[1].title = collection[2].title
    /\ collection[1].author = collection[2].author
    /\ collection[1].timestamp = collection[2].timestamp
    /\ Has(arg.data[Len(arg.data)], "viewCount")
    /\ ~Has(arg.data[Len(arg.data)], "trackedVideo")
    /\ collection[2].viewCount = None

====
